---- MODULE Spec2Model ----
(***************************************************************************)
(* csv2mysql: type inference over a CSV file and the streaming load of    *)
(* its rows through a database cursor.                                    *)
(*                                                                         *)
(* Strings are sequences of one-character strings, so that parsing,       *)
(* sanitising and quoting are computed character by character.            *)
(***************************************************************************)
EXTENDS Integers, Sequences, FiniteSets, TLC

\* ------------------------------------------------------------------ bounds
MaxStrLen == 3      \* longest exhaustively enumerated cell
MaxListLen == 4     \* longest list of observed types given to most_common
MaxHeaderLen == 3   \* most columns of a raw header given to format_header
MaxDataRows == 4    \* most data rows of a modelled CSV file
MaxBatch == 2       \* largest max_rows / max_inserts argument

\* --------------------------------------------------------- character tools
Digits == {"0", "1", "2", "3", "4", "5", "6", "7", "8", "9"}

Whitespace == {" "}

DigitVal(c) ==
  CASE c = "0" -> 0 [] c = "1" -> 1 [] c = "2" -> 2 [] c = "3" -> 3
    [] c = "4" -> 4 [] c = "5" -> 5 [] c = "6" -> 6 [] c = "7" -> 7
    [] c = "8" -> 8 [] c = "9" -> 9

UpperCase ==
  <<"A", "B", "C", "D", "E", "F", "G", "H", "I", "J", "K", "L", "M",
    "N", "O", "P", "Q", "R", "S", "T", "U", "V", "W", "X", "Y", "Z">>

LowerCase ==
  <<"a", "b", "c", "d", "e", "f", "g", "h", "i", "j", "k", "l", "m",
    "n", "o", "p", "q", "r", "s", "t", "u", "v", "w", "x", "y", "z">>

\* str.lower()
LowerChar(c) ==
  IF \E k \in 1..26 : UpperCase[k] = c
  THEN LowerCase[CHOOSE k \in 1..26 : UpperCase[k] = c]
  ELSE c

Lower(s) == [k \in 1..Len(s) |-> LowerChar(s[k])]

\* positions of s whose character is not in chars
Outside(s, chars) == {k \in 1..Len(s) : s[k] \notin chars}

Min(S) == CHOOSE m \in S : \A n \in S : m <= n

Max(S) == CHOOSE m \in S : \A n \in S : m >= n

LStrip(s, chars) ==
  IF Outside(s, chars) = {} THEN <<>>
  ELSE SubSeq(s, Min(Outside(s, chars)), Len(s))

RStrip(s, chars) ==
  IF Outside(s, chars) = {} THEN <<>>
  ELSE SubSeq(s, 1, Max(Outside(s, chars)))

Strip(s, chars) == RStrip(LStrip(s, chars), chars)

\* index of the first element of s from position k on that is in chars,
\* 0 when there is none
FirstIn(s, chars, k) ==
  LET hits == {j \in k..Len(s) : s[j] \in chars}
  IN  IF hits = {} THEN 0 ELSE Min(hits)

\* value of a short digit string (at most 9 digits are ever passed)
RECURSIVE Num(_)
Num(s) ==
  IF s = <<>> THEN 0 ELSE 10 * Num(SubSeq(s, 1, Len(s) - 1)) + DigitVal(s[Len(s)])

\* ---------------------------------------------------------------- int(s)
\* a digit group: digits with single underscores allowed between digits
DigitGroup(u) ==
  /\ u # <<>>
  /\ u[1] \in Digits
  /\ u[Len(u)] \in Digits
  /\ \A k \in 1..Len(u) : u[k] \in Digits \cup {"_"}
  /\ \A k \in 1..(Len(u) - 1) : ~(u[k] = "_" /\ u[k + 1] = "_")

Unsigned(t) == IF t # <<>> /\ t[1] \in {"+", "-"} THEN Tail(t) ELSE t

\* int(s) does not raise ValueError
ParsesInt(s) == DigitGroup(Unsigned(Strip(s, Whitespace)))

\* decimal digits of abs(int(s)), without leading zeros (<<>> for zero)
Magnitude(s) ==
  LStrip(SelectSeq(Unsigned(Strip(s, Whitespace)), LAMBDA c : c \in Digits), {"0"})

MaxIntDigits == <<"2", "1", "4", "7", "4", "8", "3", "6", "4", "7">>

\* a > b for two digit strings of the same length
RECURSIVE DigitsGreater(_, _)
DigitsGreater(a, b) ==
  IF a = <<>> THEN FALSE
  ELSE IF DigitVal(a[1]) # DigitVal(b[1]) THEN DigitVal(a[1]) > DigitVal(b[1])
  ELSE DigitsGreater(Tail(a), Tail(b))

\* the comparison of line 27 written as >=
ExceedsIntOrEqual(m) ==
  \/ Len(m) > Len(MaxIntDigits)
  \/ Len(m) = Len(MaxIntDigits) /\ ~DigitsGreater(MaxIntDigits, m)

\* abs(v) > 2147483647, on arbitrary-precision magnitudes
ExceedsInt(m) ==
  \/ Len(m) > Len(MaxIntDigits)
  \/ Len(m) = Len(MaxIntDigits) /\ DigitsGreater(m, MaxIntDigits)

\* -------------------------------------------------------------- float(s)
EmptyOrGroup(u) == u = <<>> \/ DigitGroup(u)

FloatMantissa(m) ==
  LET dot == FirstIn(m, {"."}, 1)
  IN  IF dot = 0 THEN DigitGroup(m)
      ELSE LET ip == SubSeq(m, 1, dot - 1)
               fp == SubSeq(m, dot + 1, Len(m))
           IN  EmptyOrGroup(ip) /\ EmptyOrGroup(fp) /\ (ip # <<>> \/ fp # <<>>)

\* float(s) does not raise ValueError
ParsesFloat(s) ==
  LET t == Lower(Unsigned(Strip(s, Whitespace)))
      e == FirstIn(t, {"e"}, 1)
  IN  \/ t \in {<<"i", "n", "f">>, <<"n", "a", "n">>,
                <<"i", "n", "f", "i", "n", "i", "t", "y">>}
      \/ /\ e = 0
         /\ FloatMantissa(t)
      \/ /\ e > 0
         /\ FloatMantissa(SubSeq(t, 1, e - 1))
         /\ DigitGroup(Unsigned(SubSeq(t, e + 1, Len(t))))

\* ------------------------------------------------- time.strptime(s, format)
\* The formats of dt_formats as directive/literal tokens; "ws" is the blank
\* of the format, which strptime turns into the pattern \s+.
DateTokens == <<"Y", "-", "m", "-", "d">>

TimeTokens == <<"H", ":", "M", ":", "S">>

dt_formats ==
  << [tokens |-> DateTokens \o <<"ws">> \o TimeTokens, dt_type |-> "datetime"],
     [tokens |-> DateTokens \o <<"ws">> \o TimeTokens \o <<".", "f">>,
      dt_type |-> "datetime"],
     [tokens |-> DateTokens, dt_type |-> "date"],
     [tokens |-> TimeTokens, dt_type |-> "time"] >>

At(s, i) == IF i >= 1 /\ i <= Len(s) THEN s[i] ELSE "eof"

\* number of consecutive characters of s from position i that are in chars
RunLen(s, i, chars) ==
  LET stops == {j \in i..Len(s) : s[j] \notin chars}
  IN  IF i > Len(s) THEN 0
      ELSE IF stops = {} THEN Len(s) + 1 - i ELSE Min(stops) - i

\* the lengths n, n-1, ..., 1 (a greedy repetition backs off one at a time)
Descending(n) == [k \in 1..n |-> n + 1 - k]

Opt(cond, len) == IF cond THEN <<len>> ELSE <<>>

\* The lengths a token can consume at position i, in the order in which the
\* alternatives of its regular expression are tried.
Cands(tok, s, i) ==
  LET a == At(s, i)
      b == At(s, i + 1)
  IN  CASE tok = "Y" ->    \* \d\d\d\d
             Opt(RunLen(s, i, Digits) >= 4, 4)
        [] tok = "m" ->    \* 1[0-2]|0[1-9]|[1-9]
             Opt(a = "1" /\ b \in {"0", "1", "2"}, 2)
             \o Opt(a = "0" /\ b \in Digits \ {"0"}, 2)
             \o Opt(a \in Digits \ {"0"}, 1)
        [] tok = "d" ->    \* 3[0-1]|[1-2]\d|0[1-9]|[1-9]| [1-9]
             Opt(a = "3" /\ b \in {"0", "1"}, 2)
             \o Opt(a \in {"1", "2"} /\ b \in Digits, 2)
             \o Opt(a = "0" /\ b \in Digits \ {"0"}, 2)
             \o Opt(a \in Digits \ {"0"}, 1)
             \o Opt(a = " " /\ b \in Digits \ {"0"}, 2)
        [] tok = "H" ->    \* 2[0-3]|[0-1]\d|\d
             Opt(a = "2" /\ b \in {"0", "1", "2", "3"}, 2)
             \o Opt(a \in {"0", "1"} /\ b \in Digits, 2)
             \o Opt(a \in Digits, 1)
        [] tok = "M" ->    \* [0-5]\d|\d
             Opt(a \in {"0", "1", "2", "3", "4", "5"} /\ b \in Digits, 2)
             \o Opt(a \in Digits, 1)
        [] tok = "S" ->    \* 6[0-1]|[0-5]\d|\d
             Opt(a = "6" /\ b \in {"0", "1"}, 2)
             \o Opt(a \in {"0", "1", "2", "3", "4", "5"} /\ b \in Digits, 2)
             \o Opt(a \in Digits, 1)
        [] tok = "f" ->    \* [0-9]{1,6}
             LET n == RunLen(s, i, Digits)
             IN  Descending(IF n > 6 THEN 6 ELSE n)
        [] tok = "ws" ->   \* \s+
             Descending(RunLen(s, i, Whitespace))
        [] OTHER ->        \* a literal character
             Opt(a = tok, 1)

\* re.match: the first way, in backtracking order, to match tokens k.. from
\* position i; the result lists the position after each token, <<>> = no match
RECURSIVE MatchFrom(_, _, _, _)
RECURSIVE TryCands(_, _, _, _, _, _)
MatchFrom(tokens, k, s, i) ==
  IF k > Len(tokens) THEN <<i>>
  ELSE TryCands(tokens, k, s, i, Cands(tokens[k], s, i), 1)

TryCands(tokens, k, s, i, cands, n) ==
  IF n > Len(cands) THEN <<>>
  ELSE LET rest == MatchFrom(tokens, k + 1, s, i + cands[n])
       IN  IF rest # <<>> THEN <<i>> \o rest
           ELSE TryCands(tokens, k, s, i, cands, n + 1)

IsLeap(y) == (y % 4 = 0) /\ (y % 100 # 0 \/ y % 400 = 0)

DaysInMonth(y, m) ==
  IF m = 2 THEN (IF IsLeap(y) THEN 29 ELSE 28)
  ELSE IF m \in {4, 6, 9, 11} THEN 30 ELSE 31

\* datetime_date(year, month, day) does not raise ValueError
ValidDate(y, m, d) == y >= 1 /\ d <= DaysInMonth(y, m)

\* time.strptime(s, format) does not raise ValueError: the pattern matches a
\* prefix of s, nothing of s remains unconverted, and the date exists
\* (year 1900, month 1, day 1 when the format has no date)
StrptimeOk(s, tokens) ==
  LET p == MatchFrom(tokens, 1, s, 1)
      grp(k) == SubSeq(s, p[k], p[k + 1] - 1)
  IN  /\ p # <<>>
      /\ p[Len(p)] = Len(s) + 1
      /\ \/ tokens[1] # "Y"
         \/ ValidDate(Num(grp(1)), Num(grp(3)), Num(LStrip(grp(5), Whitespace)))

\* ------------------------------------------------------------ get_type(s)
InferredTypes ==
  {"int", "bigint", "double", "datetime", "date", "time", "text", "varchar(255)"}

TextLimit == 255

\* index of the first format of dt_formats that s parses with, 0 for none
RECURSIVE FirstFormat(_, _)
FirstFormat(s, k) ==
  IF k > Len(dt_formats) THEN 0
  ELSE IF StrptimeOk(s, dt_formats[k].tokens) THEN k ELSE FirstFormat(s, k + 1)

get_type(s) ==
  IF ParsesInt(s)
  THEN (IF ExceedsInt(Magnitude(s)) THEN "bigint" ELSE "int")
  ELSE IF ParsesFloat(s) THEN "double"
  ELSE IF FirstFormat(s, 1) # 0 THEN dt_formats[FirstFormat(s, 1)].dt_type
  ELSE IF Len(s) > TextLimit THEN "text"
  ELSE "varchar(255)"

\* ------------------------------------------------------- inputs of get_type
GetTypeAlphabet == {"1", "-", ".", "e", " ", ":", "_", "x"}

StringsUpTo(alphabet, n) == UNION {[1..k -> alphabet] : k \in 0..n}

Rep(c, n) == [k \in 1..n |-> c]

\* boundary values, number and date/time shapes, longer than MaxStrLen
CuratedCells ==
  { <<"2", "1", "4", "7", "4", "8", "3", "6", "4", "7">>,
    <<"-", "2", "1", "4", "7", "4", "8", "3", "6", "4", "7">>,
    <<"2", "1", "4", "7", "4", "8", "3", "6", "4", "8">>,
    <<"-", "2", "1", "4", "7", "4", "8", "3", "6", "4", "8">>,
    <<"+", "2", "1", "4", "7", "4", "8", "3", "6", "4", "8">>,
    <<"0", "2", "1", "4", "7", "4", "8", "3", "6", "4", "8">>,
    <<"2", "1", "4", "7", "4", "8", "3", "6", "4", "6">>,
    <<"2", "1", "4", "7", "4", "8", "3", "6", "5", "7">>,
    <<"3", "0", "0", "0", "0", "0", "0", "0", "0", "0">>,
    <<"1", "9", "9", "9", "9", "9", "9", "9", "9", "9">>,
    <<"2", "_", "1", "4", "7", "_", "4", "8", "3", "_", "6", "4", "8">>,
    <<" ", "2", "1", "4", "7", "4", "8", "3", "6", "4", "8", " ">>,
    <<"2", "1", "4", "7", "4", "8", "3", "6", "4", "8", ".", "0">>,
    <<"2", "1", "4", "7", "4", "8", "3", "6", "4", "7", "0">>,
    <<"i", "n", "f">>,
    <<"-", "I", "N", "F">>,
    <<"n", "a", "n">>,
    <<"N", "a", "N">>,
    <<"i", "n", "f", "i", "n", "i", "t", "y">>,
    <<"1", "e", "5">>,
    <<"1", "E", "-", "5">>,
    <<"1", ".", "5", "e", "+", "5">>,
    <<".", "5">>,
    <<"5", ".">>,
    <<"1", "e">>,
    <<"e", "5">>,
    <<"i", "n", "a">>,
    <<"2", "0", "2", "0", "-", "0", "1", "-", "0", "1">>,
    <<"2", "0", "2", "0", "-", "1", "-", "1">>,
    <<"2", "0", "2", "0", "-", "0", "2", "-", "2", "9">>,
    <<"2", "0", "2", "1", "-", "0", "2", "-", "2", "9">>,
    <<"2", "0", "2", "0", "-", "0", "2", "-", "3", "0">>,
    <<"2", "0", "2", "0", "-", "0", "4", "-", "3", "1">>,
    <<"2", "0", "2", "0", "-", "1", "3", "-", "0", "1">>,
    <<"0", "0", "0", "0", "-", "0", "1", "-", "0", "1">>,
    <<"1", "9", "0", "0", "-", "0", "2", "-", "2", "9">>,
    <<"2", "0", "0", "0", "-", "0", "2", "-", "2", "9">>,
    <<"2", "0", "2", "0", "-", "1", "-", " ", "1">>,
    <<"2", "0", "2", "0", "-", "0", "1", "-", "3", "2">>,
    <<"2", "0", "2", "0", "-", "0", "0", "-", "1", "0">>,
    <<"2", "0", "2", "-", "0", "1", "-", "0", "1">>,
    <<"2", "0", "2", "0", "-", "0", "1", "-", "0", "1", " ", "1", "0", ":", "2", "0", ":", "3", "0">>,
    <<"2", "0", "2", "0", "-", "0", "1", "-", "0", "1", " ", " ", "1", ":", "2", ":", "3">>,
    <<"2", "0", "2", "0", "-", "0", "1", "-", "0", "1", " ", "1", "0", ":", "2", "0", ":", "3", "0", ".", "5">>,
    <<"2", "0", "2", "0", "-", "0", "1", "-", "0", "1", " ", "1", "0", ":", "2", "0", ":", "3", "0", ".", "1", "2", "3", "4", "5", "6">>,
    <<"2", "0", "2", "0", "-", "0", "1", "-", "0", "1", " ", "1", "0", ":", "2", "0", ":", "3", "0", ".", "1", "2", "3", "4", "5", "6", "7">>,
    <<"2", "0", "2", "0", "-", "0", "1", "-", "0", "1", " ", "1", "0", ":", "2", "0", ":", "3", "0", ".">>,
    <<"2", "0", "2", "0", "-", "0", "2", "-", "3", "0", " ", "1", "0", ":", "2", "0", ":", "3", "0">>,
    <<"2", "0", "2", "0", "-", "0", "1", "-", "0", "1", "1", "0", ":", "2", "0", ":", "3", "0">>,
    <<"2", "0", "2", "0", "-", "0", "1", "-", "0", "1", " ", "1", "0", ":", "2", "0", ":", "3", "0", " ">>,
    <<"1", "0", ":", "2", "0", ":", "3", "0">>,
    <<"1", ":", "2", ":", "3">>,
    <<"2", "3", ":", "5", "9", ":", "6", "1">>,
    <<"2", "3", ":", "5", "9", ":", "6", "2">>,
    <<"2", "4", ":", "0", "0", ":", "0", "0">>,
    <<"1", "2", ":", "6", "0", ":", "0", "0">>,
    <<"1", ":", "2", ":", "3", "x">>,
    <<" ", "1", ":", "2", ":", "3">>,
    <<"1", ":", "2">>,
    <<"1", "0", ":", "2", "0", ":", "3", "0", ".", "5">>,
    <<"a", "b", "c">>,
    <<"a", ",", "b">> }

\* cells around the length limit of line 55
LongCells ==
  UNION { {Rep("x", n), Rep("1", n), Rep(" ", n), Rep(" ", n - 1) \o <<"1">>,
           Rep("x", n - 10) \o <<"2", "0", "2", "0", "-", "0", "1", "-", "0", "1">>}
          : n \in (TextLimit - 1)..(TextLimit + 2) }

Cells == StringsUpTo(GetTypeAlphabet, MaxStrLen) \cup CuratedCells \cup LongCells

\* --------------------------------------------------------- most_common(l)
Range(f) == {f[k] : k \in DOMAIN f}

\* l.count(x)
Count(l, x) == Cardinality({k \in 1..Len(l) : l[k] = x})

\* a maximum that keeps the last of the equally frequent elements
MaxByCountLast(l) ==
  l[Max({k \in 1..Len(l) : \A j \in 1..Len(l) : Count(l, l[j]) <= Count(l, l[k])})]

\* max(l, key=l.count): the first element whose count no element exceeds
MaxByCount(l) ==
  l[Min({k \in 1..Len(l) : \A j \in 1..Len(l) : Count(l, l[j]) <= Count(l, l[k])})]

\* the formats that trump the others, in the order of the loop of line 66
Trumps == <<"text", "bigint">>

most_common(l) ==
  IF l # <<>>
  THEN LET hits == {k \in 1..Len(Trumps) : Trumps[k] \in Range(l)}
       IN  IF hits # {} THEN Trumps[Min(hits)] ELSE MaxByCount(l)
  ELSE "varchar(255)"

\* ------------------------------------------------------ format_header(row)
Letters == {UpperCase[k] : k \in 1..26} \cup {LowerCase[k] : k \in 1..26}

\* \w of the regular expression module
WordChars == Letters \cup Digits \cup {"_"}

\* re.sub('\W+', '_', s): every maximal run of non-word characters becomes
\* one underscore
RECURSIVE SubNonWord(_)
SubNonWord(s) ==
  IF s = <<>> THEN <<>>
  ELSE IF s[1] \in WordChars THEN <<s[1]>> \o SubNonWord(Tail(s))
  ELSE <<"_">> \o SubNonWord(SubSeq(s, 1 + RunLen(s, 1, {s[k] : k \in 1..Len(s)} \ WordChars), Len(s)))

safe_col(s) == Strip(SubNonWord(Lower(s)), {"_"})

\* str(n) for n >= 1
RECURSIVE Decimal(_)
Decimal(n) ==
  LET d == <<"0", "1", "2", "3", "4", "5", "6", "7", "8", "9">>[(n % 10) + 1]
  IN  IF n < 10 THEN <<d>> ELSE Decimal(n \div 10) \o <<d>>

\* the character U+0060 (grave accent), written as a token
BackQuote == "grave"

Quote(col) == <<BackQuote>> \o col \o <<BackQuote>>

\* counts[col] right after the increment of line 130 for column k
CountsAt(row, k) == Cardinality({j \in 1..k : safe_col(row[j]) = safe_col(row[k])})

FormatCol(row, k) ==
  LET col == safe_col(row[k])
      n == CountsAt(row, k)
  IN  Quote(IF n > 1 THEN col \o Decimal(n) ELSE col)

format_header(row) == [k \in 1..Len(row) |-> FormatCol(row, k)]

\* ------------------------------------------- get_col_types(file, max_rows)
\* A file is the sequence of records csv.reader yields; file[1] has row_i = 0.
\* rows visited by the loop of line 79 after the header: row_i = 1..max_rows
SampleRows(file, max_rows) ==
  SubSeq(file, 2, IF Len(file) - 1 < max_rows THEN Len(file) ELSE max_rows + 1)

\* the (key, type) pairs appended at line 85, in the order of the appends
RECURSIVE Appends(_, _)
Appends(header, rows) ==
  IF rows = <<>> THEN <<>>
  ELSE [c \in 1..Len(rows[1]) |-> <<header[c], get_type(rows[1][c])>>]
       \o Appends(header, Tail(rows))

\* csv_types[key] after the loop
CsvTypes(header, rows, key) ==
  LET mine == SelectSeq(Appends(header, rows), LAMBDA a : a[1] = key)
  IN  [k \in 1..Len(mine) |-> mine[k][2]]

\* the result: raised names the exception that ends the call ("" for none)
get_col_types(file, max_rows) ==
  IF file = <<>>
  THEN [raised |-> "UnboundLocalError", types |-> <<>>]
  ELSE LET header == file[1]
           rows == SampleRows(file, max_rows)
       IN  IF \E r \in 1..Len(rows) : Len(rows[r]) > Len(header)
           THEN [raised |-> "IndexError", types |-> <<>>]
           ELSE [raised |-> "",
                 types |-> [c \in 1..Len(header) |->
                              most_common(CsvTypes(header, rows, header[c]))]]

\* ------------------------------------------------- get_schema, get_insert
\* zip(header, col_types) stops at the shorter of the two
Zip(a, b) == [k \in 1..(IF Len(a) < Len(b) THEN Len(a) ELSE Len(b)) |-> <<a[k], b[k]>>]

\* The statement as its parts: one <<col_name, col_type>> per
\* "col_name col_type," clause, in the order of the text, and the column of
\* the PRIMARY KEY clause.
get_schema(header, col_types) ==
  [clauses |-> SelectSeq(Zip(header, col_types), LAMBDA p : p[1] # <<"i", "d">>),
   primary_key |-> <<"i", "d">>]

\* field names and number of %s markers of the INSERT statement
get_insert(header) == [field_names |-> header, markers |-> Len(header)]

\* ------------------------------------------------------------------ inputs
TypeLists == StringsUpTo(InferredTypes, MaxListLen)

\* raw column names: short names over letters, digits and symbols, and
\* names that need lowering, collapsing or stripping
RawNames ==
  StringsUpTo({"a", "2", "$"}, 2)
  \cup {<<"I", "d">>, <<"_", "a">>, <<"a", "_", "_">>, <<"a", " ", "$", "a">>,
        <<"a", "$", "_", " ", "a">>, <<"$", " ", "a", " ">>}

RawHeaders == StringsUpTo(RawNames, MaxHeaderLen)

\* files for the calls of get_col_types: headers with distinct and with
\* repeated names, rows shorter than, as long as and longer than the header
SampleHeaders == {<<>>, <<<<"a">>>>, <<<<"a">>, <<"b">>>>, <<<<"a">>, <<"a">>>>}

SampleRecords ==
  {<<>>, <<<<"1">>>>, <<<<"x">>>>, <<<<"1">>, <<"x">>>>, <<<<"x">>, <<"1">>>>,
   <<<<"1">>, <<"1">>, <<"1">>>>}

SampleFiles ==
  {<<>>} \cup {<<h>> \o d : h \in SampleHeaders, d \in StringsUpTo(SampleRecords, MaxDataRows)}

\* files for the load: an empty file, headers that are empty, hold an id
\* column or repeat a name, and records shorter than, as long as and longer
\* than those headers
LoadHeaders ==
  {<<>>, <<<<"a">>>>, <<<<"i", "d">>, <<"a">>>>, <<<<"a">>, <<"a">>, <<"a", "2">>>>}

LoadRecords == {<<>>, <<<<"1">>>>, <<<<"1">>, <<"x">>>>}

LoadFiles ==
  {<<>>} \cup {<<h>> \o d : h \in LoadHeaders, d \in StringsUpTo(LoadRecords, MaxDataRows)}

\* ------------------------------------------------------------------- state
VARIABLES
  call,         \* the last call of a function on its own: fn, arguments, ret
  file,         \* the records of input_file
  max_rows,     \* the sample bound of get_col_types
  max_inserts,  \* the commit interval of main
  pc,           \* the position of main
  i,            \* the index enumerate gives the current record
  row,          \* the current record
  header,       \* <<>> for None, <<h>> once a header h is assigned
  col_types,    \* the result of get_col_types
  schema_sql,   \* the statement built by get_schema
  insert_sql,   \* the statement built by get_insert
  exc,          \* the exception that ended main, "" for none
  log           \* the statements given to the cursor and the connection

vars == <<call, file, max_rows, max_inserts, pc, i, row, header, col_types,
          schema_sql, insert_sql, exc, log>>

load_vars == <<file, max_rows, max_inserts, pc, i, row, header, col_types,
               schema_sql, insert_sql, exc, log>>

\* ------------------------------------------------ the functions on their own
\* Each behaviour is one call of one function on arguments drawn from the
\* input sets.
NoCall == [fn |-> "none"]

CallGetType ==
  /\ call = NoCall
  /\ pc = "idle"
  /\ \E s \in Cells :
       call' = [fn |-> "get_type", s |-> s, ret |-> get_type(s)]
  /\ UNCHANGED load_vars

CallMostCommon ==
  /\ call = NoCall
  /\ pc = "idle"
  /\ \E l \in TypeLists :
       call' = [fn |-> "most_common", l |-> l, ret |-> most_common(l)]
  /\ UNCHANGED load_vars

CallFormatHeader ==
  /\ call = NoCall
  /\ pc = "idle"
  /\ \E r \in RawHeaders :
       call' = [fn |-> "format_header", row |-> r, ret |-> format_header(r)]
  /\ UNCHANGED load_vars

CallGetColTypes ==
  /\ call = NoCall
  /\ pc = "idle"
  /\ \E f \in SampleFiles, m \in 1..MaxBatch :
       call' = [fn |-> "get_col_types", file |-> f, max_rows |-> m,
                ret |-> get_col_types(f, m)]
  /\ UNCHANGED load_vars

\* ------------------------------------------------------------------- main
NoSchema == [clauses |-> <<>>, primary_key |-> <<>>]

NoInsert == [field_names |-> <<>>, markers |-> 0]

InitLoad(start, files, sizes) ==
  /\ file \in files
  /\ max_rows \in sizes
  /\ max_inserts \in sizes
  /\ pc = start
  /\ i = 0
  /\ row = <<>>
  /\ header = <<>>
  /\ col_types = <<>>
  /\ schema_sql = NoSchema
  /\ insert_sql = NoInsert
  /\ exc = ""
  /\ log = <<>>

\* the exception classes a statement of the cursor or the connection raises
ErrorClasses == {"OperationalError", "ProgrammingError"}

\* why CREATE INDEX fails
IndexCauses == {"index exists", "other"}

\* A log entry: the statement, the source line that issues it, the index of
\* the record main is at, and the exception it raised ("" for none).
Done(op, line, sql, args) ==
  [op |-> op, line |-> line, row_i |-> i, sql |-> sql, args |-> args,
   err |-> "", cause |-> ""]

Failed(entry, err, cause) == [entry EXCEPT !.err = err, !.cause = cause]

\* the statement main is about to issue at each position
Pending ==
  CASE pc = "connect" -> Done("CREATE DATABASE", 143, <<>>, <<>>)
    [] pc = "drop" -> Done("DROP TABLE", 165, <<>>, <<>>)
    [] pc = "create" -> Done("CREATE TABLE", 166, schema_sql, <<>>)
    [] pc = "index" -> Done("CREATE INDEX", 169, <<>>, <<>>)
    [] pc = "insert" -> Done("INSERT", 156, insert_sql, row)
    [] pc = "commit" -> Done("COMMIT", 158, <<>>, <<>>)
    [] pc = "final_commit" -> Done("COMMIT", 180, <<>>, <<>>)

\* "if header:" - None and the empty list are both false
Truthy(h) == h # <<>> /\ h[1] # <<>>

\* lines 154-155
Pad(r, n) == IF Len(r) < n THEN r \o [k \in 1..(n - Len(r)) |-> <<>>] ELSE r

\* lines 140-144: connect, CREATE DATABASE IF NOT EXISTS, select_db
Connect ==
  /\ pc = "connect"
  /\ log' = Append(log, Pending)
  /\ pc' = "analyze"
  /\ UNCHANGED <<call, file, max_rows, max_inserts, i, row, header, col_types,
                 schema_sql, insert_sql, exc>>

\* line 148
Analyze ==
  /\ pc = "analyze"
  /\ LET r == get_col_types(file, max_rows)
     IN  IF r.raised # ""
         THEN /\ pc' = "raised"
              /\ exc' = r.raised
              /\ UNCHANGED col_types
         ELSE /\ pc' = "next"
              /\ col_types' = r.types
              /\ UNCHANGED exc
  /\ UNCHANGED <<call, file, max_rows, max_inserts, i, row, header,
                 schema_sql, insert_sql, log>>

\* line 152 and the branch of line 153: the reader yields the next record, or
\* is exhausted and main goes on to line 180
NextRow ==
  /\ pc = "next"
  /\ IF i >= Len(file)
     THEN /\ pc' = "final_commit"
          /\ UNCHANGED <<row, header, schema_sql>>
     ELSE IF Truthy(header)
     THEN /\ row' = Pad(file[i + 1], Len(header[1]))
          /\ pc' = "insert"
          /\ UNCHANGED <<header, schema_sql>>
     ELSE /\ row' = file[i + 1]
          /\ header' = <<format_header(file[i + 1])>>
          /\ schema_sql' = get_schema(format_header(file[i + 1]), col_types)
          /\ pc' = "drop"
  /\ UNCHANGED <<call, file, max_rows, max_inserts, i, col_types, insert_sql,
                 exc, log>>

\* line 165
DropTable ==
  /\ pc = "drop"
  /\ log' = Append(log, Pending)
  /\ pc' = "create"
  /\ UNCHANGED <<call, file, max_rows, max_inserts, i, row, header, col_types,
                 schema_sql, insert_sql, exc>>

\* line 166
CreateTable ==
  /\ pc = "create"
  /\ log' = Append(log, Pending)
  /\ pc' = "index"
  /\ UNCHANGED <<call, file, max_rows, max_inserts, i, row, header, col_types,
                 schema_sql, insert_sql, exc>>

\* lines 169 and 176, then the next turn of the loop
CreateIndex ==
  /\ pc = "index"
  /\ log' = Append(log, Pending)
  /\ insert_sql' = get_insert(header[1])
  /\ i' = i + 1
  /\ pc' = "next"
  /\ UNCHANGED <<call, file, max_rows, max_inserts, row, header, col_types,
                 schema_sql, exc>>

\* the errors of CREATE INDEX that the except clause of line 170 catches
Swallowed(err, cause) == err = "OperationalError"

\* lines 168-171 when CREATE INDEX raises: a caught error leaves main in the
\* loop, any other ends it
CreateIndexRaises ==
  /\ pc = "index"
  /\ \E err \in ErrorClasses, cause \in IndexCauses :
       /\ cause = "index exists" => err = "OperationalError"
       /\ log' = Append(log, Failed(Pending, err, cause))
       /\ IF Swallowed(err, cause)
          THEN /\ insert_sql' = get_insert(header[1])
               /\ i' = i + 1
               /\ pc' = "next"
               /\ UNCHANGED exc
          ELSE /\ pc' = "raised"
               /\ exc' = err
               /\ UNCHANGED <<insert_sql, i>>
  /\ UNCHANGED <<call, file, max_rows, max_inserts, row, header, col_types,
                 schema_sql>>

\* a commit interval counted from the first data row instead of the header
CommitDueShifted(n, every) == (n - 1) % every = 0

\* line 157
CommitDue(n, every) == n % every = 0

\* line 156, then line 157
Insert ==
  /\ pc = "insert"
  /\ log' = Append(log, Pending)
  /\ IF CommitDue(i, max_inserts)
     THEN pc' = "commit" /\ UNCHANGED i
     ELSE pc' = "next" /\ i' = i + 1
  /\ UNCHANGED <<call, file, max_rows, max_inserts, row, header, col_types,
                 schema_sql, insert_sql, exc>>

\* line 158, then the next turn of the loop
Commit ==
  /\ pc = "commit"
  /\ log' = Append(log, Pending)
  /\ i' = i + 1
  /\ pc' = "next"
  /\ UNCHANGED <<call, file, max_rows, max_inserts, row, header, col_types,
                 schema_sql, insert_sql, exc>>

\* line 180
FinalCommit ==
  /\ pc = "final_commit"
  /\ log' = Append(log, Pending)
  /\ pc' = "done"
  /\ UNCHANGED <<call, file, max_rows, max_inserts, i, row, header, col_types,
                 schema_sql, insert_sql, exc>>

\* the positions whose statement main issues outside any try block
Unguarded == {"connect", "drop", "create", "insert", "commit", "final_commit"}

\* an error that is caught and skipped: main goes on with the next record
AfterErrorSkipped(at) == IF at \in {"connect", "final_commit"} THEN "raised" ELSE "next"

\* where main is after a statement outside any try block has raised
AfterError(at) == "raised"

\* a statement outside any try block raises: the exception leaves main
GatewayError ==
  /\ pc \in Unguarded
  /\ \E err \in ErrorClasses :
       /\ log' = Append(log, Failed(Pending, err, "other"))
       /\ exc' = err
  /\ pc' = AfterError(pc)
  /\ UNCHANGED <<call, file, max_rows, max_inserts, i, row, header, col_types,
                 schema_sql, insert_sql>>

Init == call = NoCall /\ InitLoad("connect", LoadFiles, 1..MaxBatch)

Next ==
  \/ Connect
  \/ Analyze
  \/ NextRow
  \/ DropTable
  \/ CreateTable
  \/ CreateIndex
  \/ CreateIndexRaises
  \/ Insert
  \/ Commit
  \/ FinalCommit
  \/ GatewayError

Spec == Init /\ [][Next]_vars

InitCalls == call = NoCall /\ InitLoad("idle", {<<>>}, {1})

NextCalls == CallGetType \/ CallMostCommon \/ CallFormatHeader \/ CallGetColTypes

SpecCalls == InitCalls /\ [][NextCalls]_vars

\* =================================================== properties of the calls
Int32 == <<"2", "1", "4", "7", "4", "8", "3", "6", "4", "7">>

\* |v| <= 2147483647 for the digits m of |v| (no leading zeros), compared
\* as two numbers of five digits each
FitsInt(m) ==
  \/ Len(m) < 10
  \/ /\ Len(m) = 10
     /\ LET hi == Num(SubSeq(m, 1, 5))
            lo == Num(SubSeq(m, 6, 10))
        IN  hi < 21474 \/ (hi = 21474 /\ lo <= 83647)

\* C6: get_type returns one of the eight types for every string; a string
\* that parses as an integer v is int when |v| <= 2147483647 and bigint
\* when |v| > 2147483647; otherwise a string that parses as a float is
\* double; otherwise the first date/time format that parses it decides
\* datetime, datetime, date or time; otherwise it is text when longer than
\* 255 characters and varchar(255) when not (so for the empty string).
C6_GetTypePrecedence ==
  call.fn = "get_type" =>
    LET s == call.s
        r == call.ret
        fmt(k) == StrptimeOk(s, dt_formats[k].tokens)
    IN  /\ r \in InferredTypes
        /\ ParsesInt(s) => r = (IF FitsInt(Magnitude(s)) THEN "int" ELSE "bigint")
        /\ s = Int32 => r = "int"
        /\ s = <<"-">> \o Int32 => r = "int"
        /\ s = <<"2", "1", "4", "7", "4", "8", "3", "6", "4", "8">> => r = "bigint"
        /\ s = <<"-", "2", "1", "4", "7", "4", "8", "3", "6", "4", "8">> => r = "bigint"
        /\ ~ParsesInt(s) /\ ParsesFloat(s) => r = "double"
        /\ ~ParsesInt(s) /\ ~ParsesFloat(s) =>
             /\ fmt(1) \/ fmt(2) => r = "datetime"
             /\ ~fmt(1) /\ ~fmt(2) /\ fmt(3) => r = "date"
             /\ ~fmt(1) /\ ~fmt(2) /\ ~fmt(3) /\ fmt(4) => r = "time"
             /\ ~fmt(1) /\ ~fmt(2) /\ ~fmt(3) /\ ~fmt(4) =>
                  r = (IF Len(s) > 255 THEN "text" ELSE "varchar(255)")
        /\ s = <<>> => r = "varchar(255)"

\* get_type has classified the largest int and the smallest bigint
C6_Witness ==
  /\ call.fn = "get_type"
  /\ call.s = <<"2", "1", "4", "7", "4", "8", "3", "6", "4", "8">>
  /\ call.ret = "bigint"

\* position of the first occurrence of x in l
FirstAt(l, x) == Min({k \in 1..Len(l) : l[k] = x})

\* C2: most_common gives text when text occurs in the list; otherwise bigint
\* when bigint occurs; otherwise a most frequent value of the list, and of
\* the equally frequent values the one that occurs first; varchar(255) for
\* the empty list.  [int,int,text] gives text, [int,int,bigint] gives bigint.
C2_MostCommonPrecedence ==
  call.fn = "most_common" =>
    LET l == call.l
        r == call.ret
    IN  /\ l = <<>> => r = "varchar(255)"
        /\ "text" \in Range(l) => r = "text"
        /\ "text" \notin Range(l) /\ "bigint" \in Range(l) => r = "bigint"
        /\ l # <<>> /\ "text" \notin Range(l) /\ "bigint" \notin Range(l) =>
             /\ r \in Range(l)
             /\ \A x \in Range(l) : Count(l, x) <= Count(l, r)
             /\ \A x \in Range(l) :
                  Count(l, x) = Count(l, r) => FirstAt(l, r) <= FirstAt(l, x)
        /\ l = <<"int", "int", "text">> => r = "text"
        /\ l = <<"int", "int", "bigint">> => r = "bigint"

\* most_common has broken a tie between two equally frequent types
C2_Witness ==
  /\ call.fn = "most_common"
  /\ call.l = <<"double", "int", "int", "double">>
  /\ call.ret = "double"

\* the classifications of the cells at position c of the sampled records
\* that have a field at position c, in file order
RECURSIVE ColumnCells(_, _)
ColumnCells(rows, c) ==
  IF rows = <<>> THEN <<>>
  ELSE (IF Len(rows[1]) >= c THEN <<get_type(rows[1][c])>> ELSE <<>>)
       \o ColumnCells(Tail(rows), c)

FirstDataRows(f, n) == [k \in 1..(IF Len(f) - 1 < n THEN Len(f) - 1 ELSE n) |-> f[k + 1]]

\* C3 (as claimed): when get_col_types returns, it returns one type per
\* header column, and the type at position c is the most_common reduction of
\* the classifications of the cells at position c of the first
\* min(max_rows, number of data rows) data rows; no other cell has influence.
C3_ColumnTypesByPosition ==
  (call.fn = "get_col_types" /\ call.file # <<>> /\ call.ret.raised = "") =>
    /\ Len(call.ret.types) = Len(call.file[1])
    /\ \A c \in 1..Len(call.file[1]) :
         call.ret.types[c] =
           most_common(ColumnCells(FirstDataRows(call.file, call.max_rows), c))

\* C4 (as claimed): format_header returns as many names as it is given, the
\* n-th occurrence (n >= 2) of a sanitized name carries the suffix n, and
\* the names it returns are pairwise distinct.
C4_HeaderNamesDistinct ==
  call.fn = "format_header" =>
    /\ Len(call.ret) = Len(call.row)
    /\ \A k \in 1..Len(call.ret) :
         CountsAt(call.row, k) >= 2 =>
           call.ret[k] = Quote(safe_col(call.row[k]) \o Decimal(CountsAt(call.row, k)))
    /\ \A j, k \in 1..Len(call.ret) : j # k => call.ret[j] # call.ret[k]

\* ==================================================== properties of the load
Ended == pc \in {"done", "raised"}

Indices(P(_)) == {k \in 1..Len(log) : P(log[k])}

Ok(e) == e.err = ""

\* the values bound by the INSERT statements that went through, in order
InsertedRows ==
  LET ins == SelectSeq(log, LAMBDA e : e.op = "INSERT" /\ Ok(e))
  IN  [k \in 1..Len(ins) |-> ins[k].args]

\* number of INSERTs that went through up to position n of the log
InsertsUpTo(n) == Cardinality({k \in 1..n : log[k].op = "INSERT" /\ Ok(log[k])})

\* position of the last COMMIT that went through, 0 for none
LastCommit ==
  LET cs == Indices(LAMBDA e : e.op = "COMMIT" /\ Ok(e))
  IN  IF cs = {} THEN 0 ELSE Max(cs)

\* rows made durable, and rows inserted since
Committed == InsertsUpTo(LastCommit)

Uncommitted == InsertsUpTo(Len(log)) - Committed

\* a data row as the claim has it bound: padded with empty strings up to
\* the header length, never cut
Bound(r, n) == [k \in 1..(IF Len(r) < n THEN n ELSE Len(r)) |->
                  IF k <= Len(r) THEN r[k] ELSE <<>>]

\* C1 (as claimed): a load of a file with a non-empty header that meets no
\* error of the cursor or the connection executes one INSERT per data row,
\* in file order, binding the row padded to the header length.
C1_OneInsertPerDataRow ==
  (Ended /\ file # <<>> /\ file[1] # <<>> /\ \A k \in 1..Len(log) : Ok(log[k])) =>
    InsertedRows = [k \in 1..(Len(file) - 1) |-> Bound(file[k + 1], Len(file[1]))]

\* the name id, bare and quoted
IdNames == {<<"i", "d">>, Quote(<<"i", "d">>)}

\* C5 (as claimed): CREATE TABLE has one clause per header column except a
\* column named id, in header order, each with the type inferred for its
\* position, and PRIMARY KEY (id).
C5_SchemaOmitsId ==
  \A k \in 1..Len(log) :
    log[k].op = "CREATE TABLE" =>
      /\ log[k].sql.primary_key = <<"i", "d">>
      /\ log[k].sql.clauses =
           SelectSeq(Zip(format_header(file[1]), col_types),
                     LAMBDA p : p[1] \notin IdNames)

DDL == <<"DROP TABLE", "CREATE TABLE", "CREATE INDEX">>

\* C8 (as claimed): only the first record of the second read is consumed as
\* the header; DROP TABLE, CREATE TABLE and CREATE INDEX are each issued at
\* most once, in that order, for record 0, and every INSERT comes after all
\* three and binds a later record.
C8_HeaderOnce ==
  LET ddl == SelectSeq(log, LAMBDA e : e.op \in Range(DDL))
  IN  /\ Len(ddl) <= 3
      /\ \A k \in 1..Len(ddl) : ddl[k].op = DDL[k] /\ ddl[k].row_i = 0
      /\ \A k \in 1..Len(log) :
           log[k].op = "INSERT" =>
             /\ log[k].row_i >= 1
             /\ \A d \in 1..3 : \E j \in 1..(k - 1) : log[j].op = DDL[d]
      /\ pc \in {"drop", "create", "index"} => i = 0

\* C10 (as claimed): a failure of CREATE INDEX for any cause other than the
\* index existing ends the load there, before any INSERT.
C10_OnlyIndexExistsSwallowed ==
  \A k \in 1..Len(log) :
    (log[k].op = "CREATE INDEX" /\ ~Ok(log[k]) /\ log[k].cause # "index exists") =>
      k = Len(log) /\ pc = "raised"

\* C7: an error on DROP TABLE, CREATE TABLE or an INSERT is the last
\* statement of the load: main has left with the exception, nothing is
\* issued after it, and what is committed and what is not stays as it was
\* at the failure.
C7_ErrorAborts ==
  /\ [](\A k \in 1..Len(log) :
          (log[k].op \in {"DROP TABLE", "CREATE TABLE", "INSERT"} /\ ~Ok(log[k])) =>
            /\ k = Len(log)
            /\ pc = "raised"
            /\ exc = log[k].err)
  /\ [][pc = "raised" => (pc' = "raised" /\ log' = log)]_vars
  /\ [][Committed' >= Committed]_vars

\* an INSERT failed after a batch was committed and a further row inserted
C7_Witness ==
  /\ pc = "raised"
  /\ log[Len(log)].op = "INSERT"
  /\ ~Ok(log[Len(log)])
  /\ Committed >= 1
  /\ Uncommitted >= 1

\* C9: the INSERT of the record with index i is followed at once by the
\* commit of line 158 exactly when i is a multiple of max_inserts; the commit
\* of line 180 is issued once, on exhaustion; never more than max_inserts
\* rows are inserted and not committed; a load that ends without error has
\* committed every inserted row.
C9_CommitBatches ==
  /\ \A k \in 1..Len(log) :
       (log[k].op = "INSERT" /\ Ok(log[k])) =>
         IF log[k].row_i % max_inserts = 0
         THEN IF k = Len(log) THEN pc = "commit"
              ELSE log[k + 1].op = "COMMIT" /\ log[k + 1].line = 158
         ELSE IF k = Len(log) THEN pc # "commit"
              ELSE ~(log[k + 1].op = "COMMIT" /\ log[k + 1].line = 158)
  /\ \A k \in 1..Len(log) :
       (log[k].op = "COMMIT" /\ log[k].line = 158) =>
         /\ k > 1
         /\ log[k - 1].op = "INSERT"
         /\ Ok(log[k - 1])
         /\ log[k - 1].row_i % max_inserts = 0
  /\ Cardinality(Indices(LAMBDA e : e.op = "COMMIT" /\ e.line = 180)) <= 1
  /\ \A k \in 1..Len(log) : log[k].line = 180 => k = Len(log)
  /\ Uncommitted <= max_inserts
  /\ pc = "done" =>
       /\ log[Len(log)].line = 180
       /\ Uncommitted = 0
       /\ Committed = InsertsUpTo(Len(log))

\* a load ended without error after a batch commit and with rows that only
\* the final commit made durable
C9_Witness ==
  /\ pc = "done"
  /\ max_inserts = 2
  /\ InsertsUpTo(Len(log)) = 3
  /\ Cardinality(Indices(LAMBDA e : e.op = "COMMIT" /\ e.line = 158)) = 1
  /\ \A k \in 1..Len(log) : Ok(log[k])

====
